---------------------------- MODULE Spec2Model ----------------------------
(***************************************************************************)
(* Lab Report Generator (src/lab_report_generator.py).                     *)
(*                                                                         *)
(* The model has two layers.  The PDF layer translates LabReportPDF and    *)
(* create_pdf_report into operators over a record `pdf' that carries the   *)
(* drawing state of the FPDF object (page, y, font) and the list of cells  *)
(* drawn so far.  The session layer translates main(): one action per      *)
(* Streamlit script run, caused by one widget interaction.                 *)
(*                                                                         *)
(* Text that the code parses or tests (Result, Units, Normal Values) is a  *)
(* sequence of one-character strings; a character outside Latin-1 is       *)
(* written by its code point ("U+2265").  Lengths are in units of          *)
(* 1/100000 mm, so that FPDF's 10.00125 mm margin and 297.00008 mm page    *)
(* height are integers.  Numbers read by float() are in hundredths.        *)
(***************************************************************************)
EXTENDS Integers, Sequences, FiniteSets

VARIABLES
  selected_reports,  \* value of the st.multiselect widget
  editor,            \* editor[i]: state of the st.data_editor with key editor_<i-1>
  report_data,       \* st.session_state.report_data
  preview,           \* rows shown by the Report Preview of the last script run
  n_edits,           \* number of data_editor edits made so far
  pdf,               \* the LabReportPDF object of the running create_pdf_report
  pc,                \* position inside create_pdf_report
  disk,              \* names of the report files present on disk
  events             \* what the Generate handler did, in order

vars == <<selected_reports, editor, report_data, preview, n_edits, pdf, pc, disk, events>>

-----------------------------------------------------------------------------
(* Bounds of the model *)

\* Longest list the multiselect is driven to.
MaxSelected == 2

\* Number of cells typed into in one session.
MaxEdits == 1

-----------------------------------------------------------------------------
(* Python values and string functions *)

\* A missing value (None / NaN) in a DataFrame cell.
NaN == <<"NaN">>

\* pd.notna
notna(v) == v # NaN

Whitespace == {" ", "\t", "\n", "\r"}

Digits == {"0", "1", "2", "3", "4", "5", "6", "7", "8", "9"}

\* Characters that Latin-1 cannot encode.
NonLatin1 == {"U+2265", "U+03BC"}

Latin1(s) == \A i \in 1..Len(s) : s[i] \notin NonLatin1

RECURSIVE LStrip(_)
LStrip(s) == IF s # <<>> /\ Head(s) \in Whitespace THEN LStrip(Tail(s)) ELSE s

RECURSIVE RStrip(_)
RStrip(s) ==
  IF s # <<>> /\ s[Len(s)] \in Whitespace THEN RStrip(SubSeq(s, 1, Len(s) - 1)) ELSE s

\* str.strip()
Strip(s) == RStrip(LStrip(s))

\* str.split(sep) for a one-character separator: the pieces between separators.
RECURSIVE Split(_, _)
Split(s, sep) ==
  IF \A i \in 1..Len(s) : s[i] # sep THEN <<s>>
  ELSE LET k == CHOOSE i \in 1..Len(s) : s[i] = sep /\ \A j \in 1..(i - 1) : s[j] # sep
       IN  <<SubSeq(s, 1, k - 1)>> \o Split(SubSeq(s, k + 1, Len(s)), sep)

DigitVal(c) == CHOOSE n \in 0..9 : <<"0", "1", "2", "3", "4", "5", "6", "7", "8", "9">>[n + 1] = c

RECURSIVE IntOf(_)
IntOf(s) == IF s = <<>> THEN 0 ELSE 10 * IntOf(SubSeq(s, 1, Len(s) - 1)) + DigitVal(s[Len(s)])

\* The outcome of an expression that raised, or of a variable left at None.
None == [ok |-> FALSE, val |-> 0]

\* float(s): surrounding whitespace is dropped, then an optional sign, digits
\* and at most one point; anything else raises ValueError (None).  The value is
\* in hundredths; the texts of the model carry at most two decimals.
float(s) ==
  LET t    == Strip(s)
      neg  == t # <<>> /\ Head(t) = "-"
      u    == IF t # <<>> /\ Head(t) \in {"-", "+"} THEN Tail(t) ELSE t
      pts  == {i \in 1..Len(u) : u[i] = "."}
      p    == IF pts = {} THEN Len(u) + 1 ELSE CHOOSE i \in pts : TRUE
      ip   == SubSeq(u, 1, p - 1)
      fp   == SubSeq(u, p + 1, Len(u))
      good == /\ Cardinality(pts) <= 1
              /\ \A i \in 1..Len(u) : u[i] \in Digits \cup {"."}
              /\ Len(ip) + Len(fp) >= 1
              /\ Len(fp) <= 2
      frac == IF Len(fp) = 0 THEN 0 ELSE IF Len(fp) = 1 THEN 10 * IntOf(fp) ELSE IntOf(fp)
      mag  == 100 * IntOf(ip) + frac
  IN  IF good THEN [ok |-> TRUE, val |-> IF neg THEN 0 - mag ELSE mag] ELSE None

\* Python truth of a float or None: None and 0.0 are false.
Truthy(x) == x.ok /\ x.val # 0

-----------------------------------------------------------------------------
(* Report templates *)

REPORT_TYPES ==
  <<"Complete Blood Count (CBC)", "Liver Function Test (LFT)",
    "Kidney Function Test (KFT)", "Thyroid Function Test (TFT)">>

\* CbcTemplate: the literal DataFrame of lines 351-377, one record per row.
CbcTemplate ==
  <<
     [Test |-> "Haemoglobin", Result |-> <<>>, Units |-> "g%",
      NormalValues |-> <<"M","a","l","e",":"," ","1","4"," ","-"," ","1","6"," ","g","%",","," ","F","e","m","a","l","e",":"," ","1","2"," ","-"," ","1","4"," ","g","%">>],
     [Test |-> "RBC Count", Result |-> <<>>, Units |-> "million/cu.mm.",
      NormalValues |-> <<"4",".","0"," ","-"," ","6",".","0"," ","m","i","l","l","i","o","n","/","c","u",".","m","m">>],
     [Test |-> "PCV", Result |-> <<>>, Units |-> "%",
      NormalValues |-> <<"3","5"," ","-"," ","6","0"," ","%">>],
     [Test |-> "MCV", Result |-> <<>>, Units |-> "fl",
      NormalValues |-> <<"8","0"," ","-"," ","9","9"," ","f","l">>],
     [Test |-> "MCH", Result |-> <<>>, Units |-> "pg",
      NormalValues |-> <<"2","7"," ","-"," ","3","1"," ","p","g">>],
     [Test |-> "MCHC", Result |-> <<>>, Units |-> "%",
      NormalValues |-> <<"3","2"," ","-"," ","3","7"," ","%">>],
     [Test |-> "RDW", Result |-> <<>>, Units |-> "fl",
      NormalValues |-> <<"9"," ","-"," ","1","7"," ","f","l">>],
     [Test |-> "Total WBC Count", Result |-> <<>>, Units |-> "/cu.mm",
      NormalValues |-> <<"4","0","0","0"," ","-"," ","1","0",",","0","0","0"," ","/","c","u",".","m","m">>],
     [Test |-> "Neutrophils", Result |-> <<>>, Units |-> "%",
      NormalValues |-> <<"4","0"," ","-"," ","7","0"," ","%">>],
     [Test |-> "Lymphocytes", Result |-> <<>>, Units |-> "%",
      NormalValues |-> <<"2","0"," ","-"," ","4","5"," ","%">>],
     [Test |-> "Eosinophils", Result |-> <<>>, Units |-> "%",
      NormalValues |-> <<"0","0"," ","-"," ","0","6"," ","%">>],
     [Test |-> "Monocytes", Result |-> <<>>, Units |-> "%",
      NormalValues |-> <<"0","0"," ","-"," ","0","8"," ","%">>],
     [Test |-> "Basophils", Result |-> <<>>, Units |-> "%",
      NormalValues |-> <<"0","0"," ","-"," ","0","1"," ","%">>],
     [Test |-> "Platelet Count", Result |-> <<>>, Units |-> "lak/cu.mm",
      NormalValues |-> <<"1","5","0","0","0","0"," ","-"," ","4","5","0","0","0","0"," ","/","l","a","k"," ","c","u",".","m","m">>],
     [Test |-> "Platelets on Smear", Result |-> <<>>, Units |-> "",
      NormalValues |-> <<"A","d","e","q","u","a","t","e"," ","O","n"," ","S","m","e","a","r">>],
     [Test |-> "RBC Morphology", Result |-> <<>>, Units |-> "",
      NormalValues |-> <<"N","o","r","m","o","c","y","t","i","c",","," ","N","o","r","m","o","c","h","r","o","m","i","c">>],
     [Test |-> "WBCs on PS", Result |-> <<>>, Units |-> "",
      NormalValues |-> <<"N","o","r","m","a","l">>],
     [Test |-> "RDWSD", Result |-> <<>>, Units |-> "fl",
      NormalValues |-> <<"3","7"," ","-"," ","5","4"," ","f","l">>],
     [Test |-> "RDWCV", Result |-> <<>>, Units |-> "%",
      NormalValues |-> <<"1","1"," ","-"," ","1","6"," ","%">>],
     [Test |-> "MPV", Result |-> <<>>, Units |-> "fl",
      NormalValues |-> <<"9"," ","-"," ","1","3"," ","f","l">>],
     [Test |-> "P-LCR", Result |-> <<>>, Units |-> "%",
      NormalValues |-> <<"1","3"," ","-"," ","4","3"," ","%">>]
  >>

\* LftTemplate: the literal DataFrame of lines 381-389, one record per row.
LftTemplate ==
  <<
     [Test |-> "Bilirubin Total", Result |-> <<>>, Units |-> "mg/dl",
      NormalValues |-> <<"0",".","1"," ","-"," ","1",".","2"," ","m","g","/","d","l">>],
     [Test |-> "Bilirubin Direct", Result |-> <<>>, Units |-> "mg/dl",
      NormalValues |-> <<"0",".","1"," ","-"," ","0",".","4"," ","m","g","/","d","l">>],
     [Test |-> "Bilirubin Indirect", Result |-> <<>>, Units |-> "mg/dl",
      NormalValues |-> <<"0",".","1"," ","-"," ","0",".","7"," ","m","g","/","d","l">>],
     [Test |-> "S.G.O.T.", Result |-> <<>>, Units |-> "U/L",
      NormalValues |-> <<"0"," ","-"," ","4","6"," ","U","/","L">>],
     [Test |-> "S.G.P.T.", Result |-> <<>>, Units |-> "IU/L",
      NormalValues |-> <<"0"," ","-"," ","4","9"," ","U","/","L">>],
     [Test |-> "Alkaline Phosphatase", Result |-> <<>>, Units |-> "IU/L",
      NormalValues |-> <<"1","5"," ","-"," ","1","1","2"," ","I","U","/","L">>],
     [Test |-> "Total Proteins", Result |-> <<>>, Units |-> "gm/dl",
      NormalValues |-> <<"6",".","0"," ","-"," ","8",".","3"," ","g","m","/","d","l">>],
     [Test |-> "Albumin", Result |-> <<>>, Units |-> "gm/dl",
      NormalValues |-> <<"3",".","2"," ","-"," ","5",".","0"," ","g","m","/","d","l">>],
     [Test |-> "Globulin", Result |-> <<>>, Units |-> "gm/dl",
      NormalValues |-> <<"2",".","0"," ","-"," ","3",".","5"," ","g","m","/","d","l">>],
     [Test |-> "A / G Ratio", Result |-> <<>>, Units |-> "",
      NormalValues |-> <<"1",".","0"," ","-"," ","2",".","3">>],
     [Test |-> "G.G.T.P.", Result |-> <<>>, Units |-> "IU/L",
      NormalValues |-> <<"2","5"," ","-"," ","4","3"," ","I","U","/","L">>]
  >>

\* KftTemplate: the literal DataFrame of lines 393-400, one record per row.
KftTemplate ==
  <<
     [Test |-> "Blood Urea", Result |-> <<>>, Units |-> "mg/dl",
      NormalValues |-> <<"1","5"," ","-"," ","4","5"," ","m","g","/","d","l">>],
     [Test |-> "Serum Creatinine", Result |-> <<>>, Units |-> "mg/dl",
      NormalValues |-> <<"0",".","6"," ","-"," ","1",".","4"," ","m","g","/","d","l">>],
     [Test |-> "Uric Acid", Result |-> <<>>, Units |-> "mg/dl",
      NormalValues |-> <<"2",".","4"," ","-"," ","7",".","0"," ","m","g","/","d","l">>],
     [Test |-> "Sodium", Result |-> <<>>, Units |-> "mEq/L",
      NormalValues |-> <<"1","3","5"," ","-"," ","1","5","5"," ","m","E","q","/","L">>],
     [Test |-> "Potassium", Result |-> <<>>, Units |-> "mEq/L",
      NormalValues |-> <<"3",".","5"," ","-"," ","5",".","5"," ","m","E","q","/","L">>],
     [Test |-> "Chloride", Result |-> <<>>, Units |-> "mEq/L",
      NormalValues |-> <<"9","8"," ","-"," ","1","0","7"," ","m","E","q","/","L">>]
  >>

\* TftTemplate: the literal DataFrame of lines 404-409, one record per row.
TftTemplate ==
  <<
     [Test |-> "T3 (Triiodothyronine)", Result |-> <<>>, Units |-> "ng/ml",
      NormalValues |-> <<"0",".","8"," ","-"," ","2",".","0"," ","n","g","/","m","l">>],
     [Test |-> "T4 (Thyroxine)", Result |-> <<>>, Units |-> "U+03BCg/dl",
      NormalValues |-> <<"4",".","8"," ","-"," ","1","2",".","7"," ","U+03BC","g","/","d","l">>],
     [Test |-> "TSH", Result |-> <<>>, Units |-> "U+03BCIU/ml",
      NormalValues |-> <<"0",".","2","7"," ","-"," ","4",".","2"," ","U+03BC","I","U","/","m","l">>]
  >>

\* DefaultTemplate: the literal DataFrame of lines 413-418, one record per row.
DefaultTemplate ==
  <<
     [Test |-> "Test 1", Result |-> <<>>, Units |-> "unit 1",
      NormalValues |-> <<"n","o","r","m","a","l"," ","1">>],
     [Test |-> "Test 2", Result |-> <<>>, Units |-> "unit 2",
      NormalValues |-> <<"n","o","r","m","a","l"," ","2">>],
     [Test |-> "Test 3", Result |-> <<>>, Units |-> "unit 3",
      NormalValues |-> <<"n","o","r","m","a","l"," ","3">>]
  >>
load_report_template(report_name) ==
  IF report_name = "Complete Blood Count (CBC)" THEN CbcTemplate
  ELSE IF report_name = "Liver Function Test (LFT)" THEN LftTemplate
  ELSE IF report_name = "Kidney Function Test (KFT)" THEN KftTemplate
  ELSE IF report_name = "Thyroid Function Test (TFT)" THEN TftTemplate
  ELSE DefaultTemplate

-----------------------------------------------------------------------------
(* LabReportPDF: the FPDF drawing state *)

Mm(n) == n * 100000

\* FPDF's defaults (A4 portrait, mm): page height 841.89 pt and top margin
\* 28.35 pt, both divided by k = 72 / 25.4.
PageHeight == 29700008

TopMargin == 1000125

\* The margin before it was raised ("Increased from 15 to 60").
PageBreakMargin_15 == Mm(15)

\* set_auto_page_break(auto=True, margin=60)
PageBreakMargin == Mm(60)

PageBreakTrigger == PageHeight - PageBreakMargin

\* LabReportPDF(): no page yet, FPDF's initial font size 12, nothing drawn.
\* pages[n] tells how page n was started: "explicit" by a call of add_page in
\* create_pdf_report, "auto" by the automatic page break of cell().
\* raised: an exception is propagating out of create_pdf_report.
NewPdf ==
  [page |-> 0, y |-> 0, style |-> "", size |-> 12, in_footer |-> FALSE,
   cells |-> <<>>, pages |-> <<>>, raised |-> FALSE]

\* The font styles FPDF.set_font accepts; any other style raises.
FontStyles == {"", "B", "I", "BI"}

(* A method body is the list of the FPDF calls it makes, in order.  Each    *)
(* operator below is one call (a list of length one), so that bodies are    *)
(* concatenations.                                                          *)

set_font(style, size) == <<[op |-> "set_font", style |-> style, size |-> size]>>

ln(h) == <<[op |-> "ln", h |-> h]>>

line == <<[op |-> "line"]>>

set_y(y) == <<[op |-> "set_y", y |-> y]>>

\* cell(w, h, txt, 0, ln, align).  kind names the role of the cell, row the
\* Test name of the table row it belongs to ("" outside table rows), txt a
\* literal label, val the text of a data cell.
Put(kind, row, txt, val, w, h, nl) ==
  <<[op |-> "cell", kind |-> kind, row |-> row, txt |-> txt, val |-> val,
     w |-> w, h |-> h, nl |-> nl]>>

\* cell() of a literal label.
Label(kind, txt, w, h, nl) == Put(kind, "", txt, <<>>, w, h, nl)

add_page == <<[op |-> "add_page"]>>

\* footer(): set_y(-50), set_y(-40), italic 8, one centred cell of height 4,
\* ln(2).
footer ==
  set_y(0 - Mm(50)) \o set_y(0 - Mm(40)) \o set_font("I", 8)
    \o Label("footer", "Bold Indicates Abnormal Values", 0, Mm(4), 1) \o ln(Mm(2))

\* header(): ln(25), a line, ln(5).
header == ln(Mm(25)) \o line \o ln(Mm(5))

\* One drawn cell: where it is, its font, and what it shows.
Drawn(p, o) ==
  [kind |-> o.kind, row |-> o.row, txt |-> o.txt, val |-> o.val, page |-> p.page,
   y |-> p.y, w |-> o.w, h |-> o.h, style |-> p.style, size |-> p.size]

RECURSIVE Run(_, _)
RECURSIVE Exec(_, _)
RECURSIVE AddPage(_, _)

\* FPDF.add_page: the footer of the page being left (with in_footer set), then
\* a new page at the top margin with the header; the font in force before the
\* call is restored after the footer and after the header.
AddPage(p, how) ==
  LET f == IF p.page > 0
           THEN [Run([p EXCEPT !.in_footer = TRUE], footer) EXCEPT !.in_footer = FALSE]
           ELSE p
      n == [f EXCEPT !.page = @ + 1, !.pages = Append(@, how), !.y = TopMargin,
                     !.style = p.style, !.size = p.size]
  IN  [Run(n, header) EXCEPT !.style = p.style, !.size = p.size]

\* FPDF.cell: text Latin-1 cannot encode raises; outside the footer a cell
\* whose bottom edge would pass the page-break trigger starts a new page
\* first; the cell is drawn in the current font; ln = 1 moves y down by h.
Cell(p, o) ==
  IF ~Latin1(o.val) THEN [p EXCEPT !.raised = TRUE]
  ELSE IF p.y + o.h > PageBreakTrigger /\ ~p.in_footer
       THEN LET q == AddPage(p, "auto")
            IN  [q EXCEPT !.cells = Append(@, Drawn(q, o)),
                          !.y = IF o.nl = 1 THEN @ + o.h ELSE @]
       ELSE [p EXCEPT !.cells = Append(@, Drawn(p, o)),
                      !.y = IF o.nl = 1 THEN @ + o.h ELSE @]

\* One FPDF call on the document p.  After an exception nothing more is done.
Exec(p, o) ==
  IF p.raised THEN p
  ELSE IF o.op = "set_font"
       THEN IF o.style \in FontStyles THEN [p EXCEPT !.style = o.style, !.size = o.size]
            ELSE [p EXCEPT !.raised = TRUE]
  ELSE IF o.op = "ln" THEN [p EXCEPT !.y = @ + o.h]
  ELSE IF o.op = "set_y" THEN [p EXCEPT !.y = IF o.y < 0 THEN PageHeight + o.y ELSE o.y]
  ELSE IF o.op = "add_page" THEN AddPage(p, "explicit")
  ELSE IF o.op = "cell" THEN Cell(p, o)
  ELSE p

\* The calls of a list, in order: the first half, then the second half on the
\* document the first half leaves.  (Halving keeps the evaluation shallow; the
\* intermediate document and the two halves are bound as values.)
Run(p, calls) ==
  IF calls = <<>> THEN p
  ELSE IF Len(calls) = 1 THEN Exec(p, calls[1])
  ELSE CHOOSE r \in
         UNION { {Run(q, b) : q \in {Run(p, a)}} :
                   a \in {SubSeq(calls, 1, Len(calls) \div 2)},
                   b \in {SubSeq(calls, (Len(calls) \div 2) + 1, Len(calls))} } : TRUE

\* FPDF.close(), called by output(): the footer of the last page.
close(p) ==
  IF p.raised THEN p
  ELSE [Run([p EXCEPT !.in_footer = TRUE], footer) EXCEPT !.in_footer = FALSE]

\* str.upper() on the titles the reports pass.
upper(s) == IF s = "Liver Function Test (LFT)" THEN "LIVER FUNCTION TEST (LFT)" ELSE s

\* add_report_title(title): the title in bold 14 with its underline, then the
\* column heads in bold 9.
add_report_title(title) ==
  set_font("B", 14) \o Label("title", upper(title), 0, Mm(10), 1) \o line \o ln(Mm(6))
    \o set_font("B", 9)
    \o Label("head", "TEST", Mm(60), Mm(8), 0)
    \o Label("head", "RESULT", Mm(30), Mm(8), 0)
    \o Label("head", "UNITS", Mm(25), Mm(8), 0)
    \o Label("head", "NORMAL VALUES", Mm(75), Mm(8), 1)
    \o ln(Mm(2))

\* One line of add_patient_info: a label, a colon and a value on the left and
\* on the right; the right value ends the line.
PatientLine(left, right) ==
  Label("patient", left, Mm(30), Mm(5), 0) \o Label("patient", ":", Mm(5), Mm(5), 0)
    \o Label("patient", "", Mm(50), Mm(5), 0)
    \o Label("patient", right, Mm(30), Mm(5), 0) \o Label("patient", ":", Mm(5), Mm(5), 0)
    \o Label("patient", "", Mm(50), Mm(5), 1)

\* add_patient_info(patient_info): four lines in bold 9, ln(5), a separator
\* line, ln(5).  The patient's texts are Latin-1.
add_patient_info ==
  set_font("B", 9)
    \o PatientLine("LAB NO.", "REG DATE")
    \o PatientLine("PATIENT NAME", "SAMPLE DATE")
    \o PatientLine("REF. BY DR.", "REPORT DATE")
    \o PatientLine("SAMPLE COLL. AT", "SEX / AGE")
    \o ln(Mm(5)) \o line \o ln(Mm(5))

-----------------------------------------------------------------------------
(* add_test_table *)

\* lower_value of a row: float(normal_values.split("-")[0]).
LowerValue(normal_values) == float(Split(normal_values, "-")[1])

\* upper_value of a row: float(normal_values.split("-")[1].split(" ")[1]).  It
\* stays None when the lower bound raised first, when there is no "-", or when
\* the piece after the "-" has no second word.
UpperValue(normal_values) ==
  LET parts == Split(normal_values, "-")
  IN  IF ~LowerValue(normal_values).ok \/ Len(parts) < 2 THEN None
      ELSE LET words == Split(parts[2], " ")
           IN  IF Len(words) < 2 THEN None ELSE float(words[2])

\* The guard of the range test: float(result_str) and lower_value and upper_value.
RangeKnown(r, lower_value, upper_value) ==
  Truthy(r) /\ Truthy(lower_value) /\ Truthy(upper_value)

\* The bold Result cell without the set_font that follows it.
BoldResult_NoReset(row, result_str) ==
  set_font("B", 9) \o Put("Result", row, "", result_str, Mm(30), Mm(5), 0)

\* The Result cell in bold 9, then back to regular 9.
BoldResult(row, result_str) ==
  set_font("B", 9) \o Put("Result", row, "", result_str, Mm(30), Mm(5), 0) \o set_font("", 9)

\* The except branch: regular 9, the Result cell, regular 9.
ExceptResult(row, result_str) ==
  set_font("", 9) \o Put("Result", row, "", result_str, Mm(30), Mm(5), 0) \o set_font("", 9)

\* The branches that ask for the font style of four spaces: set_font raises
\* for a style FPDF does not know, and the bare except draws the cell.
PlainResult(row, result_str) ==
  IF "    " \in FontStyles
  THEN set_font("    ", 9) \o Put("Result", row, "", result_str, Mm(30), Mm(5), 0)
         \o set_font("", 9)
  ELSE ExceptResult(row, result_str)

\* The Result cell of a row whose result_str is not blank (the try block).
ResultCell(row, result_str, lower_value, upper_value) ==
  LET r == float(result_str)
  IN  IF ~r.ok THEN ExceptResult(row, result_str)
      ELSE IF RangeKnown(r, lower_value, upper_value)
           THEN IF r.val < lower_value.val THEN BoldResult(row, result_str)
                ELSE IF r.val > upper_value.val THEN BoldResult(row, result_str)
                ELSE PlainResult(row, result_str)
           ELSE PlainResult(row, result_str)

\* One iteration of the loop over data.iterrows().
TableRow(row) ==
  LET result_str  == IF notna(row.Result) THEN row.Result ELSE <<>>
      lower_value == LowerValue(row.NormalValues)
      upper_value == UpperValue(row.NormalValues)
  IN  Put("Test", row.Test, row.Test, <<>>, Mm(60), Mm(5), 0)
        \o (IF result_str # <<>> /\ Strip(result_str) # <<>>
            THEN ResultCell(row.Test, result_str, lower_value, upper_value)
            ELSE Put("Result", row.Test, "", result_str, Mm(30), Mm(5), 0))
        \o Put("Units", row.Test, row.Units, <<>>, Mm(25), Mm(5), 0)
        \o Put("Normal Values", row.Test, "", row.NormalValues, Mm(75), Mm(5), 1)

RECURSIVE TableRows(_)
TableRows(data) ==
  IF data = <<>> THEN <<>> ELSE TableRow(Head(data)) \o TableRows(Tail(data))

\* add_test_table(data, section_title): the optional heading in bold 10, the
\* rows in regular 9, ln(5).
add_test_table(data, section_title) ==
  (IF section_title # ""
   THEN set_font("B", 10) \o Label("section", upper(section_title), 0, Mm(6), 1) \o ln(Mm(2))
   ELSE <<>>)
    \o set_font("", 9) \o TableRows(data) \o ln(Mm(5))

-----------------------------------------------------------------------------
(* generate_cbc_report, generate_lft_report, create_pdf_report *)

\* data[data['Test'].isin(tests)]
IsIn(data, tests) == LET Keep(row) == row.Test \in tests IN SelectSeq(data, Keep)

\* The mask without str.strip().
HasResult_NoStrip(row) == notna(row.Result) /\ row.Result # <<>>

\* The mask of print_if_has_result:
\* Result.notna() & (Result.astype(str).str.strip() != '').
HasResult(row) == notna(row.Result) /\ Strip(row.Result) # <<>>

print_if_has_result(subset, section_title) ==
  LET filled == SelectSeq(subset, HasResult)
  IN  IF filled # <<>> THEN add_test_table(filled, section_title) ELSE <<>>

\* The sections of the CBC report: heading ("" for none) and test names.
CbcSections ==
  << [title |-> "", tests |-> {"Haemoglobin", "RBC Count", "PCV"}],
     [title |-> "RBC INDICES", tests |-> {"MCV", "MCH", "MCHC", "RDW"}],
     [title |-> "TOTAL WBC COUNT",
      tests |-> {"Total WBC Count", "Neutrophils", "Lymphocytes", "Eosinophils",
                 "Monocytes", "Basophils"}],
     [title |-> "PLATELETS", tests |-> {"Platelet Count", "Platelets on Smear"}],
     [title |-> "PERIPHERAL BLOOD SMEAR",
      tests |-> {"RBC Morphology", "WBCs on PS", "RDWSD", "RDWCV", "MPV", "P-LCR"}] >>

LftSections ==
  << [title |-> "",
      tests |-> {"Bilirubin Total", "Bilirubin Direct", "Bilirubin Indirect", "S.G.O.T.",
                 "S.G.P.T.", "Alkaline Phosphatase", "Total Proteins", "Albumin",
                 "Globulin", "A / G Ratio", "G.G.T.P."}] >>

RECURSIVE PrintSections(_, _)
PrintSections(data, sections) ==
  IF sections = <<>> THEN <<>>
  ELSE print_if_has_result(IsIn(data, Head(sections).tests), Head(sections).title)
         \o PrintSections(data, Tail(sections))

\* The closing line of a report in italic 8, then ln(5).
InstrumentLine(txt) == set_font("I", 8) \o Label("instrument", txt, 0, Mm(5), 1) \o ln(Mm(5))

generate_cbc_report(data) ==
  add_report_title("COMPLETE BLOOD COUNT(CBC)")
    \o PrintSections(data, CbcSections)
    \o InstrumentLine("Test done on Nihon Kohden MEK- 6420K fully automated cell counter.")

generate_lft_report(data) ==
  add_report_title("Liver Function Test (LFT)")
    \o PrintSections(data, LftSections)
    \o InstrumentLine("Test Done on semi automated analyser Micro Lab RX-50.")

\* LabReportPDF(), add_page(), add_patient_info(): the start of create_pdf_report.
StartPdf == Run(NewPdf, add_page \o add_patient_info)

\* The loop body without the test for the last report: a page after every
\* report.
ReportStep_AlwaysPage(data, reports, k) ==
  LET report_name == reports[k]
  IN  (IF report_name = "Complete Blood Count (CBC)"
       THEN generate_cbc_report(data[report_name])
       ELSE IF report_name = "Liver Function Test (LFT)"
       THEN generate_lft_report(data[report_name])
       ELSE <<>>)
        \o add_page \o add_patient_info

\* The body of the loop over selected_reports for the k-th report: the report
\* itself (only CBC and LFT have a branch), then a new page with the patient
\* block unless the report's name is that of the last one.
ReportStep(data, reports, k) ==
  LET report_name == reports[k]
  IN  (IF report_name = "Complete Blood Count (CBC)"
       THEN generate_cbc_report(data[report_name])
       ELSE IF report_name = "Liver Function Test (LFT)"
       THEN generate_lft_report(data[report_name])
       ELSE <<>>)
        \o (IF report_name # reports[Len(reports)]
            THEN add_page \o add_patient_info
            ELSE <<>>)

RECURSIVE ReportLoop(_, _, _)
ReportLoop(data, reports, k) ==
  IF k > Len(reports) THEN <<>>
  ELSE ReportStep(data, reports, k) \o ReportLoop(data, reports, k + 1)

\* create_pdf_report up to and including pdf.output(filename): the finished
\* document, or one with raised set.
create_pdf_report(data, reports) ==
  close(Run(StartPdf, ReportLoop(data, reports, 1)))

-----------------------------------------------------------------------------
(* main(): widgets and session state *)

Columns == {"Test", "Result", "Units", "NormalValues"}

\* The column_config without disabled=True on Normal Values.
column_config_RangeEditable ==
  [Test |-> [disabled |-> TRUE], Result |-> [disabled |-> FALSE],
   Units |-> [disabled |-> TRUE], NormalValues |-> [disabled |-> FALSE]]

\* column_config of st.data_editor: which columns are disabled.
column_config ==
  [Test |-> [disabled |-> TRUE], Result |-> [disabled |-> FALSE],
   Units |-> [disabled |-> TRUE], NormalValues |-> [disabled |-> TRUE]]

\* A dict with no keys.
EmptyDict == [k \in {} |-> <<>>]

\* d[k] = v
Store(d, k, v) == [x \in DOMAIN d \cup {k} |-> IF x = k THEN v ELSE d[x]]

\* st.data_editor(template_df, ...): the template with the cell edits kept in
\* the widget's state applied; the rows are fixed (num_rows is not set).
\* edits maps <<row, column>> to the text typed; a cleared cell is NaN.
data_editor(template_df, edits) ==
  [r \in 1..Len(template_df) |->
     [c \in Columns |-> IF <<r, c>> \in DOMAIN edits THEN edits[<<r, c>>]
                        ELSE template_df[r][c]]]

\* The texts a Result cell is given: cleared (missing), blank, numbers, words,
\* and text Latin-1 cannot encode.
ResultInputs ==
  { NaN, <<" ">>, <<"0">>, <<"5">>, <<"5", "0">>, <<"a", "b", "c">>, <<"U+2265", "5">> }

\* Those of them typed cell by cell during a session: one of each kind.
TypedTexts == { NaN, <<" ">>, <<"5">>, <<"U+2265", "5">> }

Elements(s) == {s[i] : i \in 1..Len(s)}

\* The mask of the preview: df['Result'].str.strip() != '' (for a missing
\* value .str.strip() is NaN, and NaN != '' is True).
PreviewMask(row) == IF notna(row.Result) THEN Strip(row.Result) # <<>> ELSE TRUE

\* filled_df of the preview.
filled_df(df) == IF df # <<>> THEN SelectSeq(df, PreviewMask) ELSE df

\* The loop of lines 474-509 from position i on: each selected report's
\* edited frame is stored under its name.
RECURSIVE StoreEdited(_, _, _, _)
StoreEdited(data, reports, editors, i) ==
  IF i > Len(reports) THEN data
  ELSE StoreEdited(Store(data, reports[i],
                         data_editor(load_report_template(reports[i]), editors[i])),
                   reports, editors, i + 1)

\* The Report Preview of a script run.
Preview(data, reports) ==
  [name \in Elements(reports) \cap DOMAIN data |-> filled_df(data[name])]

\* The name create_pdf_report gives the file (patient name and timestamp).
Filename == "report.pdf"

\* What os.remove may do: remove the file, or raise ("File might still be in
\* use").
IoFaults == {"none", "remove"}

\* The Generate button's handler after create_pdf_report made document d:
\* the events in order and the files left on disk.  An exception inside
\* create_pdf_report comes before pdf.output and is reported by st.error; one
\* from os.remove is swallowed.
HandlerEvents(d, fault) ==
  IF d.raised THEN <<"error">>
  ELSE IF fault = "remove" THEN <<"written", "read", "link", "remove failed">>
  ELSE <<"written", "read", "link", "deleted">>

HandlerDisk(files, d, fault) ==
  IF d.raised THEN files
  ELSE IF fault = "remove" THEN files \cup {Filename}
  ELSE files \ {Filename}

\* pc of a finished create_pdf_report.
Done(reports) == Len(reports) + 2

Init ==
  /\ selected_reports = <<>>
  /\ editor = <<>>
  /\ report_data = EmptyDict
  /\ preview = EmptyDict
  /\ n_edits = 0
  /\ pdf = NewPdf
  /\ pc = 0
  /\ disk = {}
  /\ events = <<>>

\* A script run without the Generate button: the frames are stored, nothing
\* is generated, the preview is drawn.
Rerun(reports, editors, data) ==
  /\ selected_reports' = reports
  /\ editor' = editors
  /\ report_data' = IF reports # <<>> THEN StoreEdited(data, reports, editors, 1) ELSE data
  /\ preview' = IF reports # <<>> THEN Preview(report_data', reports) ELSE EmptyDict
  /\ pdf' = NewPdf
  /\ pc' = 0
  /\ events' = <<>>
  /\ disk' = disk

\* The user adds a report to the multiselect; its editor starts without edits.
SelectReport(name) ==
  /\ Len(selected_reports) < MaxSelected
  /\ name \notin Elements(selected_reports)
  /\ Rerun(Append(selected_reports, name), Append(editor, EmptyDict), report_data)
  /\ UNCHANGED n_edits

\* The user removes the i-th report.  The editors are keyed by position
\* (editor_<i>): one whose position now shows another report either starts
\* afresh or keeps the edits stored under its key, as the installed Streamlit
\* identifies the widget (by key and data, or by key alone).
DeselectReport(i) ==
  /\ i \in 1..Len(selected_reports)
  /\ \E keeps \in BOOLEAN :
       LET reports == [j \in 1..(Len(selected_reports) - 1) |->
                         IF j < i THEN selected_reports[j] ELSE selected_reports[j + 1]]
           editors == [j \in 1..Len(reports) |->
                         IF j < i \/ keeps THEN editor[j] ELSE EmptyDict]
       IN  Rerun(reports, editors, report_data)
  /\ UNCHANGED n_edits

\* The rows whose cells are typed into during a session: the first of the
\* frame.
TypedRows(df) == {r \in DOMAIN df : \A k \in DOMAIN df : r <= k}

\* The user types text into one cell of the i-th editor; only a column that
\* is not disabled takes it.
EditCell(i, r, c, text) ==
  /\ n_edits < MaxEdits
  /\ i \in 1..Len(selected_reports)
  /\ r \in TypedRows(load_report_template(selected_reports[i]))
  /\ ~column_config[c].disabled
  /\ n_edits' = n_edits + 1
  /\ Rerun(selected_reports, [editor EXCEPT ![i] = Store(@, <<r, c>>, text)], report_data)

\* Reset Form: report_data = {} and st.rerun(); the rerun stores the frames of
\* the selected reports again.
ResetForm ==
  /\ selected_reports # <<>>
  /\ Rerun(selected_reports, editor, EmptyDict)
  /\ UNCHANGED n_edits

\* Generate PDF Report: the script run stores the frames, the handler calls
\* create_pdf_report and serves the file, the preview is drawn.
GeneratePdf ==
  /\ selected_reports # <<>>
  /\ report_data' = StoreEdited(report_data, selected_reports, editor, 1)
  /\ pdf' = create_pdf_report(report_data', selected_reports)
  /\ pc' = Done(selected_reports)
  /\ \E fault \in IoFaults :
       /\ events' = HandlerEvents(pdf', fault)
       /\ disk' = HandlerDisk(disk, pdf', fault)
  /\ preview' = Preview(report_data', selected_reports)
  /\ UNCHANGED <<selected_reports, editor, n_edits>>

Next ==
  \/ \E name \in Elements(REPORT_TYPES) : SelectReport(name)
  \/ \E i \in 1..MaxSelected : DeselectReport(i)
  \/ \E i \in 1..MaxSelected, r \in 1..Len(CbcTemplate), c \in Columns, text \in TypedTexts :
       EditCell(i, r, c, text)
  \/ ResetForm
  \/ GeneratePdf

Spec == Init /\ [][Next]_vars

-----------------------------------------------------------------------------
(* create_pdf_report as a function of its arguments, run step by step *)

\* The lists the multiselect can hold: distinct report names, in the order
\* they were chosen.
Selections ==
  UNION { {s \in [1..n -> Elements(REPORT_TYPES)] :
             \A i, j \in 1..n : i # j => s[i] # s[j]} : n \in 1..MaxSelected }

\* The text pasted over the Result column of the filled-in sheets.
PasteText == <<"5">>

\* Edits of the editor of report `name': the Result column as in the template
\* or pasted over (pasted), and, in report `who', the Result of row r retyped
\* as text.
SheetEdits(name, pasted, who, r, text) ==
  LET rows == 1..Len(load_report_template(name))
      base == IF pasted THEN [k \in rows \X {"Result"} |-> PasteText] ELSE EmptyDict
  IN  IF name = who /\ r \in rows THEN Store(base, <<r, "Result">>, text) ELSE base

\* The report data create_pdf_report is run on, for the list `reports': the
\* retyped row is in the first report of the list.
InputData(reports) ==
  { [name \in Elements(reports) |->
       data_editor(load_report_template(name), SheetEdits(name, pasted, who, r, text))] :
      pasted \in BOOLEAN, who \in {Head(reports)},
      r \in 1..Len(CbcTemplate), text \in ResultInputs \cup {<<>>} }

InitPdf ==
  /\ selected_reports \in Selections
  /\ report_data \in InputData(selected_reports)
  /\ editor = <<>>
  /\ preview = EmptyDict
  /\ n_edits = 0
  /\ pdf = NewPdf
  /\ pc = 0
  /\ disk = {}
  /\ events = <<>>

\* Lines 324-326: the document, its first page, the patient block.
PdfStart ==
  /\ pc = 0
  /\ pdf' = StartPdf
  /\ pc' = 1
  /\ UNCHANGED <<selected_reports, editor, report_data, preview, n_edits, disk, events>>

\* Lines 329-342: one iteration of the loop over selected_reports.
PdfReport ==
  /\ pc \in 1..Len(selected_reports)
  /\ ~pdf.raised
  /\ pdf' = Run(pdf, ReportStep(report_data, selected_reports, pc))
  /\ pc' = pc + 1
  /\ UNCHANGED <<selected_reports, editor, report_data, preview, n_edits, disk, events>>

\* Lines 345-347: pdf.output(filename).
PdfOutput ==
  /\ pc = Len(selected_reports) + 1
  /\ ~pdf.raised
  /\ pdf' = close(pdf)
  /\ pc' = Done(selected_reports)
  /\ disk' = disk \cup {Filename}
  /\ events' = <<"written">>
  /\ UNCHANGED <<selected_reports, editor, report_data, preview, n_edits>>

NextPdf == PdfStart \/ PdfReport \/ PdfOutput

SpecPdf == InitPdf /\ [][NextPdf]_vars

-----------------------------------------------------------------------------
(* Vocabulary of the properties *)

CBC == "Complete Blood Count (CBC)"
LFT == "Liver Function Test (LFT)"

\* A document has been produced: create_pdf_report returned.
Finished == pc = Done(selected_reports) /\ ~pdf.raised

\* A Result is filled: present and not blank.
Filled(result) == result # NaN /\ Strip(result) # <<>>

\* The reports create_pdf_report is run on, and their rows.
Selected == Elements(selected_reports)

RowsOf(name) == Elements(report_data[name])

\* The title a report's section of the document carries.
TitleOf(name) ==
  IF name = CBC THEN "COMPLETE BLOOD COUNT(CBC)"
  ELSE IF name = LFT THEN "LIVER FUNCTION TEST (LFT)"
  ELSE IF name = "Kidney Function Test (KFT)" THEN "KIDNEY FUNCTION TEST (KFT)"
  ELSE "THYROID FUNCTION TEST (TFT)"

CellIndex == DOMAIN pdf.cells

\* The cells of one table row.
RowCells(test) == {i \in CellIndex : pdf.cells[i].row = test}

HasTitle(name) ==
  \E i \in CellIndex : pdf.cells[i].kind = "title" /\ pdf.cells[i].txt = TitleOf(name)

\* The first cell drawn on page n.
FirstOnPage(n) ==
  {i \in CellIndex : pdf.cells[i].page = n /\ \A j \in CellIndex : j < i => pdf.cells[j].page # n}

\* The pages create_pdf_report added itself, in order.
ExplicitPages == {n \in DOMAIN pdf.pages : pdf.pages[n] = "explicit"}

KthExplicit(k) ==
  CHOOSE n \in ExplicitPages : Cardinality({m \in ExplicitPages : m <= n}) = k

\* A range text of the form 'L - U <unit>'.
RangeForm(nv) ==
  LET words == Split(nv, " ")
  IN  Len(words) >= 4 /\ float(words[1]).ok /\ words[2] = <<"-">> /\ float(words[3]).ok

RangeLow(nv) == float(Split(nv, " ")[1]).val

RangeHigh(nv) == float(Split(nv, " ")[3]).val

\* The data row a table row of the document was drawn from.
DataRow(test) ==
  CHOOSE row \in UNION {RowsOf(name) : name \in Selected} : row.Test = test

-----------------------------------------------------------------------------
(* C1 *)

\* C1: every Result cell of the document whose text is a number r and whose
\* row has a Normal Values text of the form 'L - U <unit>' is bold exactly
\* when r < L or r > U, also for r = 0 and for L = 0.
C1_BoldIffOutOfRange ==
  \A i \in CellIndex :
    LET c  == pdf.cells[i]
        nv == DataRow(c.row).NormalValues
    IN  (c.kind = "Result" /\ float(c.val).ok /\ RangeForm(nv))
          => ((c.style = "B") <=> (float(c.val).val < RangeLow(nv)
                                    \/ float(c.val).val > RangeHigh(nv)))

-----------------------------------------------------------------------------
(* C2 *)

\* C2: the produced document holds, for every selected report that is one of
\* the four templates and has a filled Result, the report's title and a table
\* row for each of its filled tests.
C2_EveryPanelPrinted ==
  Finished =>
    \A name \in Selected :
      (\E row \in RowsOf(name) : Filled(row.Result))
        => /\ HasTitle(name)
           /\ \A row \in RowsOf(name) : Filled(row.Result) => RowCells(row.Test) # {}

-----------------------------------------------------------------------------
(* C3 *)

\* The document on which a table row is drawn: add_test_table has set
\* regular 9.
TablePdf == [StartPdf EXCEPT !.style = "", !.size = 9]

\* C3: the Test, Units and Normal Values cells are drawn in regular 9, and
\* after any row of the data, whichever branch draws its Result cell, the
\* current font is regular 9 again.
C3_OnlyResultBold ==
  /\ \A i \in CellIndex :
       pdf.cells[i].kind \in {"Test", "Units", "Normal Values"}
         => pdf.cells[i].style = "" /\ pdf.cells[i].size = 9
  /\ \A t \in {TablePdf} : \A name \in Selected : \A row \in RowsOf(name) :
       \A q \in {Run(t, TableRow(row))} :
         ~q.raised => q.style = "" /\ q.size = 9

\* A produced document with a bold Result cell and a regular one.
C3_Witness ==
  /\ Finished
  /\ \E i, j \in CellIndex :
       /\ pdf.cells[i].kind = "Result" /\ pdf.cells[i].style = "B"
       /\ pdf.cells[j].kind = "Result" /\ pdf.cells[j].style = ""
       /\ pdf.cells[j].val = <<"a", "b", "c">>

-----------------------------------------------------------------------------
(* C4 *)

\* C4: after any script run the Test, Units and Normal Values columns of every
\* frame in report_data are those of the report's template, row by row.
C4_TemplateColumnsFixed ==
  \A name \in DOMAIN report_data :
    LET df == report_data[name]
        template_df == load_report_template(name)
    IN  /\ Len(df) = Len(template_df)
        /\ \A r \in DOMAIN df :
             /\ df[r].Test = template_df[r].Test
             /\ df[r].Units = template_df[r].Units
             /\ df[r].NormalValues = template_df[r].NormalValues

\* A frame whose Result column was edited, kept in report_data after its
\* report was deselected.
C4_Witness ==
  \E name \in DOMAIN report_data :
    /\ name \notin Selected
    /\ \E r \in DOMAIN report_data[name] :
         report_data[name][r].Result # load_report_template(name)[r].Result

-----------------------------------------------------------------------------
(* C5 *)

\* C5: when the Generate handler has ended, with success or with an error,
\* the file create_pdf_report named is not on disk; on success the events
\* were written, read, link, deleted in this order.
C5_NoReportLeftOnDisk ==
  events # <<>> =>
    /\ Filename \notin disk
    /\ events[Len(events)] # "error" => events = <<"written", "read", "link", "deleted">>

-----------------------------------------------------------------------------
(* C6 *)

\* C6: on every page of the document the first cell drawn after the header
\* belongs to the patient block.
C6_PatientBlockOnEveryPage ==
  \A n \in DOMAIN pdf.pages : \A i \in FirstOnPage(n) : pdf.cells[i].kind = "patient"

-----------------------------------------------------------------------------
(* C7 *)

-----------------------------------------------------------------------------
(* C8 *)

\* The patient block has 24 cells: it fills positions i .. i + 23.
PatientBlockAt(i) ==
  \A j \in i..(i + 23) : j \in CellIndex /\ pdf.cells[j].kind = "patient"

\* C8: create_pdf_report adds exactly n pages itself for n selected reports,
\* each followed at once by the patient block; what the k-th report prints
\* starts right after the block of the k-th of these pages; the last page
\* added explicitly is the n-th (none follows the last report).
C8_OnePagePerReport ==
  Finished =>
    /\ Cardinality(ExplicitPages) = Len(selected_reports)
    /\ \A n \in ExplicitPages : \A i \in FirstOnPage(n) : PatientBlockAt(i)
    /\ \A k \in DOMAIN selected_reports :
         \A i \in CellIndex :
           (pdf.cells[i].kind = "title" /\ pdf.cells[i].txt = TitleOf(selected_reports[k]))
             => /\ pdf.cells[i].page = KthExplicit(k)
                /\ \A j \in FirstOnPage(KthExplicit(k)) : i = j + 24

\* Two reports, the first running over its page: the second starts on the
\* third page of the document.
C8_Witness ==
  /\ Finished
  /\ Len(selected_reports) = 2
  /\ HasTitle(selected_reports[1]) /\ HasTitle(selected_reports[2])
  /\ ExplicitPages = {1, 3}

-----------------------------------------------------------------------------
(* C9 *)

SectionsOf(name) == IF name = CBC THEN CbcSections ELSE LftSections

\* The line that closes a report.
InstrumentOf(name) ==
  IF name = CBC THEN "Test done on Nihon Kohden MEK- 6420K fully automated cell counter."
  ELSE "Test Done on semi automated analyser Micro Lab RX-50."

\* C9: in the CBC and LFT reports no cell is drawn for a row whose Result is
\* missing, empty or blank; a section heading is drawn only if one of the
\* section's rows is filled; the title and the instrument line of a selected
\* report are in the produced document whatever the results are.
C9_BlankRowsNotPrinted ==
  /\ \A i \in CellIndex :
       pdf.cells[i].row # "" => Filled(DataRow(pdf.cells[i].row).Result)
  /\ \A i \in CellIndex :
       pdf.cells[i].kind = "section"
         => \E name \in Selected \cap {CBC, LFT} :
              \E s \in Elements(SectionsOf(name)) :
                /\ s.title = pdf.cells[i].txt
                /\ \E row \in RowsOf(name) : row.Test \in s.tests /\ Filled(row.Result)
  /\ Finished =>
       \A name \in Selected \cap {CBC, LFT} :
         /\ HasTitle(name)
         /\ \E i \in CellIndex :
              pdf.cells[i].kind = "instrument" /\ pdf.cells[i].txt = InstrumentOf(name)

\* A produced CBC or LFT report with a blank row left out beside printed
\* rows.
C9_Witness ==
  /\ Finished
  /\ \E name \in Selected \cap {CBC, LFT} :
       /\ \E row \in RowsOf(name) : row.Result = <<" ">> /\ RowCells(row.Test) = {}
       /\ \E row \in RowsOf(name) : RowCells(row.Test) # {}

-----------------------------------------------------------------------------
(* C10 *)

\* The Tests of the rows a frame shows.
Tests(df) == {df[r].Test : r \in DOMAIN df}

\* C10: for every selected report the preview shows exactly the rows whose
\* Result is filled, and the produced document prints the same rows.
C10_PreviewShowsFilledRows ==
  \A name \in DOMAIN preview :
    LET filled == {row.Test : row \in {x \in RowsOf(name) : Filled(x.Result)}}
    IN  /\ Tests(preview[name]) = filled
        /\ Finished => {row.Test : row \in {x \in RowsOf(name) : RowCells(x.Test) # {}}} = filled

=============================================================================
